---- MODULE Spec2Model ----
(***************************************************************************)
(* Client-side transaction coordinator, YBTransaction::Impl               *)
(* (src/src/yb/client/transaction.cc).                                     *)
(*                                                                         *)
(* One coordinator is modelled.  Every region the code runs under mutex_   *)
(* is one atomic step; what a thread does after it released the mutex      *)
(* (RequestStatusTablet, DoCommit, DoAbort, the waiter loop of             *)
(* HeartbeatDone) is a step of its own, so calls of other threads can      *)
(* interleave exactly where they can in the code.  The build modelled is   *)
(* the release build: DCHECK and LOG(DFATAL) do not stop the process.      *)
(***************************************************************************)
EXTENDS Naturals, Sequences, FiniteSets

\* ------------------------------------------------------------------ bounds
\* Number of batches the application drives through Prepare / Flushed.
NumBatches == 1
\* Number of PrepareChild calls the application makes.
MaxPrepareChild == 1
\* Number of heartbeats the failing status-tablet stub lets fail.
MaxStubFailures == 2

\* ------------------------------------------------------------- value sets
Tablets == {"A", "B"}
Ops == {1, 2, 3}
\* op->tablet->tablet_id() of each in-flight operation.
TabletOf(op) == IF op = 2 THEN "B" ELSE "A"
Batches == 1..NumBatches
\* The operations of each batch: batch 1 writes tablets A and B, any further
\* batch writes tablet A.
BatchOps(b) == IF b = 1 THEN {1, 2} ELSE {3}
BatchTablets(b) == {TabletOf(op) : op \in BatchOps(b)}

Running == "kRunning"
Aborted == "kAborted"
Committed == "kCommitted"
\* yb::Status values the coordinator distinguishes.
OK == "OK"
TryAgain == "TryAgain"
Expired == "Expired"
IllegalState == "IllegalState"
\* Any status that is neither Ok, TryAgain nor Expired (network error, ...).
OtherError == "NetworkError"
CREATED == "CREATED"
PENDING == "PENDING"

VARIABLES
  child_,                    \* const bool child_
  state_,                    \* std::atomic<TransactionState> state_
  ready_,                    \* bool ready_
  requested_status_tablet_,  \* std::atomic<bool> requested_status_tablet_
  status_tablet_,            \* RemoteTabletPtr status_tablet_: "null" or "set"
  error_,                    \* Status error_
  commit_callback_,          \* CommitCallback commit_callback_: "empty" or "set"
  tablets_,                  \* TabletStates tablets_: tablet id -> has_parameters
  waiters_,                  \* std::vector<Waiter> waiters_
  restart_required,          \* read_point_.IsRestartRequired()
  resolver,                  \* status tablet resolution in flight: pick / lookup
  picks,                     \* calls of manager_->PickStatusTablet so far
  heartbeat,                 \* heartbeat RPC / timer: [phase, status]
  notifying,                 \* local vector `waiters` of HeartbeatDone
  pendingRequest,            \* threads between unlock and RequestStatusTablet()
  direct,                    \* thread between unlock and DoCommit / DoAbort:
                             \* "none", "DoCommit", "DoAbort" (Abort) or
                             \* "RestartDoAbort" (SetupRestart)
  commitRpc,                 \* COMMITTED UpdateTransaction RPC: [phase, tablets]
  commitsSent,               \* COMMITTED updates sent so far
  abortRpc,                  \* AbortTransaction RPC: "none" or "inflight"
  abortsSent,                \* Abort RPCs sent so far
  commitCb,                  \* statuses the stored commit callback was invoked with
  rejectCb,                  \* status Commit handed to its callback itself in the
                             \* step just taken, "none" when the step did not
  acceptedTablets,           \* keys of tablets_ when Commit was accepted
  batch,                     \* the caller side of each batch: stage, metadata slot
  childCb,                   \* PrepareChild callback invocations: sequence of results
  crashed,                   \* the process died (null dereference)
  stubFailures               \* heartbeats the failing stub has let fail so far

vars == <<child_, state_, ready_, requested_status_tablet_, status_tablet_, error_,
          commit_callback_, tablets_, waiters_, restart_required, resolver, picks,
          heartbeat, notifying, pendingRequest, direct, commitRpc, commitsSent,
          abortRpc, abortsSent, commitCb, rejectCb, acceptedTablets, batch,
          childCb, crashed, stubFailures>>

\* Variables grouped by what an operation may leave alone.
rpcVars == <<commitRpc, commitsSent, abortRpc, abortsSent>>
resolveVars == <<resolver, picks, requested_status_tablet_, status_tablet_>>
callerVars == <<batch, childCb, acceptedTablets>>

\* ---------------------------------------------------------------- waiters
PrepareWaiter(b) == [kind |-> "Prepare", batch |-> b]
DoCommitWaiter == [kind |-> "DoCommit", batch |-> 0]
DoAbortWaiter == [kind |-> "DoAbort", batch |-> 0]
DoPrepareChildWaiter == [kind |-> "DoPrepareChild", batch |-> 0]

NoHeartbeat == [phase |-> "none", status |-> CREATED]
NoCommitRpc == [phase |-> "none", tablets |-> {}]
IdleBatch == [stage |-> "idle", metadata |-> "unset"]

Keys(t) == DOMAIN t


\* ------------------------------------------------------- pure code paths
\* CheckRunning without the state check.
CheckRunningAlwaysOk(st, err) == OK

\* CheckRunning that answers IllegalState whatever error is latched.
CheckRunningHidesError(st, err) == IF st # Running THEN IllegalState ELSE OK

\* CheckRunning: the status Commit / PrepareChild / FinishChild /
\* ApplyChildResult bail out with, OK when the transaction is running.
CheckRunning(st, err) ==
  IF st # Running THEN (IF err = OK THEN IllegalState ELSE err) ELSE OK

\* SetError that never stores its status.
SetErrorNeverLatches(err) == FALSE

\* SetError that stores every status it is given.
SetErrorAlwaysLatches(err) == TRUE

\* SetError: `if (error_.ok())` - whether this call latches its status.
SetErrorLatches(err) == err = OK

\* SetError: the state stored when the status is latched.
SetErrorState(st) == Aborted

\* RequestStatusTablet with a plain store in place of the compare-exchange.
CompareExchangeAlwaysWins(requested) == TRUE

\* RequestStatusTablet: compare_exchange_strong(expected = false, true)
\* succeeds exactly when the flag was false.
CompareExchangeWins(requested) == ~requested

\* SendHeartbeat without the early return.
HeartbeatAlwaysAllowed(st) == TRUE

\* SendHeartbeat: the early return `state_ != kRunning`.
HeartbeatAllowed(st) == st = Running

\* Prepare's loop body without the `else if (!has_tablets_without_parameters)`
\* guard: a later op overwrites the flag.
PrepareOpOverwrite(r, op) ==
  LET id == TabletOf(op) IN
  IF id \notin Keys(r.tablets)
    THEN [tablets |-> [t \in Keys(r.tablets) \cup {id} |->
                         IF t = id THEN FALSE ELSE r.tablets[t]],
          flag |-> TRUE]
    ELSE [tablets |-> r.tablets, flag |-> ~r.tablets[id]]

\* Prepare, one iteration of the loop over ops: r is [tablets, flag] where
\* flag is has_tablets_without_parameters.
PrepareOp(r, op) ==
  LET id == TabletOf(op) IN
  IF id \notin Keys(r.tablets)
    THEN [tablets |-> [t \in Keys(r.tablets) \cup {id} |->
                         IF t = id THEN FALSE ELSE r.tablets[t]],
          flag |-> TRUE]
    ELSE IF ~r.flag
      THEN [tablets |-> r.tablets, flag |-> ~r.tablets[id]]
      ELSE r

RECURSIVE PrepareLoop(_, _)
\* Prepare, the loop `for (const auto& op : ops)` in some iteration order.
PrepareLoop(r, ops) ==
  IF ops = {} THEN r
  ELSE LET op == CHOOSE o \in ops : TRUE
       IN PrepareLoop(PrepareOp(r, op), ops \ {op})

\* Prepare: what is written to *metadata.
PrepareMetadata(flag) == IF flag THEN "full" ELSE "transaction_id"

\* Flushed's loop body without the `op->yb_op->succeeded()` test.
FlushedOpAnyOutcome(t, op, succeeded) ==
  [id \in Keys(t) |-> IF id = TabletOf(op) THEN TRUE ELSE t[id]]

\* Flushed, one iteration: a succeeded op marks its tablet.
FlushedOp(t, op, succeeded) ==
  IF op \in succeeded
    THEN [id \in Keys(t) |-> IF id = TabletOf(op) THEN TRUE ELSE t[id]]
    ELSE t

RECURSIVE FlushedLoop(_, _, _)
\* Flushed: the loop `for (const auto& op : ops)` of the Ok branch.
FlushedLoop(t, ops, succeeded) ==
  IF ops = {} THEN t
  ELSE LET op == CHOOSE o \in ops : TRUE
       IN FlushedLoop(FlushedOp(t, op, succeeded), ops \ {op}, succeeded)

\* DoCommit: `for (const auto& tablet : tablets_) state.add_tablets(...)`.
CommitRequestTablets(t) == Keys(t)

\* MergeFromPB that stores the source's has_parameters.
MergeFromPBOverwrite(t, result) ==
  [id \in Keys(t) \cup Keys(result) |->
     IF id \in Keys(result) THEN result[id] ELSE t[id]]

\* TabletState::MergeFromPB on tablets_[tablet_id] (operator[] inserts a
\* default TabletState when the id is missing).
MergeFromPB(t, result) ==
  [id \in Keys(t) \cup Keys(result) |->
     (IF id \in Keys(t) THEN t[id] ELSE FALSE)
       \/ (IF id \in Keys(result) THEN result[id] ELSE FALSE)]

\* FinishChild's result with has_parameters left at its default.
FinishChildResultKeysOnly(t) == [id \in Keys(t) |-> FALSE]

\* FinishChild: the loop that adds one entry per tablet of tablets_, with
\* TabletState::ToPB.
FinishChildResult(t) == [id \in Keys(t) |-> t[id]]

\* FinishChild: what it returns, a status and (when Ok) the result.
FinishChildReturn(st, err, child, t) ==
  IF CheckRunning(st, err) # OK
    THEN [status |-> CheckRunning(st, err), tablets |-> << >>]
    ELSE IF ~child
      THEN [status |-> IllegalState, tablets |-> << >>]
      ELSE [status |-> OK, tablets |-> FinishChildResult(t)]

\* ApplyChildResult: the status it returns.
ApplyChildResultReturn(st, err, child) ==
  IF CheckRunning(st, err) # OK
    THEN CheckRunning(st, err)
    ELSE IF child THEN IllegalState ELSE OK

\* Commit: whether the call invokes its callback while it owns mutex_.
\* CheckRunning releases the lock before it returns an error; the child
\* and restart-required rejections call back inside the locked scope; an
\* accepted Commit invokes nothing in the call.
CommitCallbackHoldsMutex(st, err, child, restart) ==
  IF CheckRunning(st, err) # OK THEN FALSE ELSE child \/ restart

\* PrepareChild: whether the call invokes its callback while it owns
\* mutex_.  The CheckRunning error and the restart-required rejection are
\* delivered after the lock was released; the ready path passes the held
\* lock to DoPrepareChild; a call before ready invokes nothing.
PrepareChildCallbackHoldsMutex(st, err, restart, ready) ==
  IF CheckRunning(st, err) # OK
    THEN FALSE
    ELSE IF restart THEN FALSE ELSE ready

\* DoPrepareChild: whether the callback is invoked with mutex_ owned.  With
\* an error status it returns before locking; with Ok it either runs under
\* the caller's lock or takes the lock itself.
DoPrepareChildHoldsMutex(status) == status = OK

\* The ChildTransactionResultPB inputs: participant tables of a child.
ChildResults ==
  {<< >>, [t \in {"B"} |-> TRUE], [t \in Tablets |-> FALSE], [t \in Tablets |-> t = "A"]}

\* -------------------------------------------------- shared code fragments
\* SetError(status).
SetError(status) ==
  /\ error_' = IF SetErrorLatches(error_) THEN status ELSE error_
  /\ state_' = IF SetErrorLatches(error_) THEN SetErrorState(state_) ELSE state_

\* The AbortTransaction RPC is registered and started.
SendAbort ==
  /\ abortRpc' = "inflight"
  /\ abortsSent' = abortsSent + 1

\* DoAbort(status, transaction).  status_tablet_->tablet_id() on a null
\* status_tablet_ is undefined behaviour: the process dies, or goes on.
DoAbort(status) ==
  IF status # OK
    THEN UNCHANGED <<abortRpc, abortsSent, crashed>>
    ELSE IF status_tablet_ = "null"
      THEN \/ crashed' = TRUE /\ UNCHANGED <<abortRpc, abortsSent>>
           \/ crashed' = FALSE /\ SendAbort
      ELSE crashed' = FALSE /\ SendAbort

\* DoCommit that also invokes the callback when it sends the update.
DoCommitCallsBackOnSend(status) ==
  IF status # OK
    THEN /\ commitCb' = Append(commitCb, status)
         /\ UNCHANGED <<commitRpc, commitsSent, abortRpc, abortsSent, crashed>>
    ELSE IF Keys(tablets_) = {}
      THEN /\ DoAbort(OK)
           /\ commitCb' = IF crashed' THEN commitCb ELSE Append(commitCb, OK)
           /\ UNCHANGED <<commitRpc, commitsSent>>
      ELSE /\ commitRpc' = [phase |-> "inflight",
                            tablets |-> CommitRequestTablets(tablets_)]
           /\ commitsSent' = commitsSent + 1
           /\ commitCb' = Append(commitCb, OK)
           /\ UNCHANGED <<abortRpc, abortsSent, crashed>>

\* DoCommit(status, transaction).
DoCommit(status) ==
  IF status # OK
    THEN /\ commitCb' = Append(commitCb, status)
         /\ UNCHANGED <<commitRpc, commitsSent, abortRpc, abortsSent, crashed>>
    ELSE IF Keys(tablets_) = {}
      THEN /\ DoAbort(OK)
           /\ commitCb' = IF crashed' THEN commitCb ELSE Append(commitCb, OK)
           /\ UNCHANGED <<commitRpc, commitsSent>>
      ELSE /\ commitRpc' = [phase |-> "inflight",
                            tablets |-> CommitRequestTablets(tablets_)]
           /\ commitsSent' = commitsSent + 1
           /\ UNCHANGED <<abortRpc, abortsSent, commitCb, crashed>>

\* DoPrepareChild that hands out the envelope whatever the status.
DoPrepareChildAlwaysData(status) ==
  childCb' = Append(childCb, "data")

\* DoPrepareChild(status, transaction, callback, parent_lock).
DoPrepareChild(status) ==
  childCb' = Append(childCb, IF status # OK THEN "error" ELSE "data")

\* SendHeartbeat that announces the transaction as CREATED every time.
SendHeartbeatAlwaysCreated(status) ==
  heartbeat' = IF HeartbeatAllowed(state_)
                 THEN [phase |-> "inflight", status |-> CREATED]
                 ELSE NoHeartbeat

\* SendHeartbeat(status, weak_transaction); the transaction is alive.
SendHeartbeat(status) ==
  heartbeat' = IF HeartbeatAllowed(state_)
                 THEN [phase |-> "inflight", status |-> status]
                 ELSE NoHeartbeat

\* RequestStatusTablet().
DoRequestStatusTablet ==
  IF CompareExchangeWins(requested_status_tablet_)
    THEN /\ requested_status_tablet_' = TRUE
         /\ picks' = picks + 1
         /\ resolver' = "picking"
    ELSE UNCHANGED <<requested_status_tablet_, picks, resolver>>

\* `lock.unlock();` without the call of RequestStatusTablet().
UnlockWithoutRequest ==
  UNCHANGED <<pendingRequest, requested_status_tablet_, picks, resolver>>

\* `lock.unlock(); RequestStatusTablet();`.  The flag is never reset, so a
\* call that starts when the flag is already set does the same whenever it
\* runs: it is taken in the same step.  A call that starts while the flag
\* is clear races with the other callers and is a step of its own.
UnlockThenRequestStatusTablet ==
  IF requested_status_tablet_
    THEN DoRequestStatusTablet /\ UNCHANGED pendingRequest
    ELSE /\ pendingRequest' = pendingRequest + 1
         /\ UNCHANGED <<requested_status_tablet_, picks, resolver>>

\* The step invokes no callback of a rejected Commit.
NoRejection == rejectCb' = "none"

\* The step is not an answer of the failing heartbeat stub.
NoStub == UNCHANGED stubFailures

\* PrepareChild calls made so far: callbacks delivered plus continuations
\* still queued.
PrepareChildCalls ==
  Len(childCb)
    + Len(SelectSeq(waiters_, LAMBDA w : w.kind = "DoPrepareChild"))
    + Len(SelectSeq(notifying, LAMBDA w : w.kind = "DoPrepareChild"))

\* ------------------------------------------------------------------- Init
Init ==
  /\ child_ \in BOOLEAN
  /\ state_ = Running
  /\ ready_ = child_
  /\ requested_status_tablet_ = FALSE
  /\ status_tablet_ = "null"
  /\ error_ = OK
  /\ commit_callback_ = "empty"
  /\ tablets_ = << >>
  /\ waiters_ = << >>
  /\ restart_required = FALSE
  /\ resolver = "idle"
  /\ picks = 0
  /\ heartbeat = NoHeartbeat
  /\ notifying = << >>
  /\ pendingRequest = 0
  /\ direct = "none"
  /\ commitRpc = NoCommitRpc
  /\ commitsSent = 0
  /\ abortRpc = "none"
  /\ abortsSent = 0
  /\ commitCb = << >>
  /\ rejectCb = "none"
  /\ acceptedTablets = {}
  /\ batch = [b \in Batches |-> IdleBatch]
  /\ childCb = << >>
  /\ crashed = FALSE
  /\ stubFailures = 0


\* ------------------------------------------------- application operations
\* Prepare(ops, waiter, metadata) for batch b.  A batch is prepared when it
\* is new, or again after its waiter was invoked.
PrepareCall(b) ==
  /\ ~crashed
  /\ NoRejection
  /\ NoStub
  /\ batch[b].stage \in {"idle", "notified"}
  /\ IF ~ready_
       THEN /\ waiters_' = Append(waiters_, PrepareWaiter(b))
            /\ UnlockThenRequestStatusTablet
            /\ batch' = [batch EXCEPT ![b].stage = "postponed"]
            /\ UNCHANGED tablets_
       ELSE LET r == PrepareLoop([tablets |-> tablets_, flag |-> FALSE], BatchOps(b))
            IN /\ tablets_' = r.tablets
               /\ batch' = [batch EXCEPT ![b] = [stage |-> "prepared",
                                                 metadata |-> PrepareMetadata(r.flag)]]
               /\ UNCHANGED <<waiters_, pendingRequest, requested_status_tablet_,
                              picks, resolver>>
  /\ UNCHANGED <<child_, state_, ready_, error_, commit_callback_, restart_required,
                 heartbeat, notifying, direct, rpcVars, status_tablet_, commitCb,
                 childCb, acceptedTablets, crashed>>

\* The application prepares some batch.
Prepare == \E b \in Batches : PrepareCall(b)

\* RequestStatusTablet(), called by a thread that released the mutex while
\* the flag was still false.
RequestStatusTablet ==
  /\ ~crashed
  /\ NoRejection
  /\ NoStub
  /\ pendingRequest > 0
  /\ pendingRequest' = pendingRequest - 1
  /\ DoRequestStatusTablet
  /\ UNCHANGED <<child_, state_, ready_, status_tablet_, error_, commit_callback_,
                 tablets_, waiters_, restart_required, heartbeat, notifying, direct,
                 rpcVars, commitCb, callerVars, crashed>>

\* Flushed(ops, status) for a prepared batch b; succeeded are the ops whose
\* yb_op->succeeded() holds.
FlushedCall(b, status, succeeded) ==
  /\ ~crashed
  /\ NoRejection
  /\ NoStub
  /\ batch[b].stage = "prepared"
  /\ status # OK => succeeded = {}
  /\ batch' = [batch EXCEPT ![b] = IdleBatch]
  /\ IF status = OK
       THEN /\ tablets_' = FlushedLoop(tablets_, BatchOps(b), succeeded)
            /\ UNCHANGED <<error_, state_>>
       ELSE IF status = TryAgain
         THEN SetError(status) /\ UNCHANGED tablets_
         ELSE UNCHANGED <<tablets_, error_, state_>>
  /\ UNCHANGED <<child_, ready_, commit_callback_, waiters_, restart_required,
                 heartbeat, notifying, pendingRequest, direct, rpcVars, resolveVars,
                 commitCb, childCb, acceptedTablets, crashed>>

\* The batcher reports some prepared batch as flushed.
Flushed ==
  \E b \in Batches, status \in {OK, TryAgain, Expired, OtherError} :
    \E succeeded \in SUBSET BatchOps(b) : FlushedCall(b, status, succeeded)

\* Commit(callback), up to the point where the mutex is released.
Commit ==
  /\ ~crashed
  /\ NoStub
  /\ IF CheckRunning(state_, error_) # OK
       THEN /\ rejectCb' = CheckRunning(state_, error_)
            /\ UNCHANGED <<state_, commit_callback_, waiters_, pendingRequest, direct,
                           acceptedTablets, requested_status_tablet_, picks, resolver>>
       ELSE IF child_ \/ restart_required
         THEN /\ rejectCb' = IllegalState
              /\ UNCHANGED <<state_, commit_callback_, waiters_, pendingRequest, direct,
                             acceptedTablets, requested_status_tablet_, picks,
                             resolver>>
         ELSE /\ state_' = Committed
              /\ commit_callback_' = "set"
              /\ acceptedTablets' = Keys(tablets_)
              /\ IF ~ready_
                   THEN /\ waiters_' = Append(waiters_, DoCommitWaiter)
                        /\ UnlockThenRequestStatusTablet
                        /\ UNCHANGED direct
                   ELSE /\ direct' = "DoCommit"
                        /\ UNCHANGED <<waiters_, pendingRequest,
                                       requested_status_tablet_, picks, resolver>>
              /\ rejectCb' = "none"
  /\ UNCHANGED <<child_, ready_, error_, tablets_, restart_required, heartbeat,
                 notifying, rpcVars, status_tablet_, commitCb, batch, childCb, crashed>>

\* Abort(), up to the point where the mutex is released.
Abort ==
  /\ ~crashed
  /\ NoRejection
  /\ NoStub
  /\ IF state_ # Running \/ child_
       THEN UNCHANGED <<state_, waiters_, pendingRequest, direct,
                        requested_status_tablet_, picks, resolver>>
       ELSE /\ state_' = Aborted
            /\ IF ~ready_
                 THEN /\ waiters_' = Append(waiters_, DoAbortWaiter)
                      /\ UnlockThenRequestStatusTablet
                      /\ UNCHANGED direct
                 ELSE /\ direct' = "DoAbort"
                      /\ UNCHANGED <<waiters_, pendingRequest,
                                     requested_status_tablet_, picks, resolver>>
  /\ UNCHANGED <<child_, ready_, error_, commit_callback_, tablets_, restart_required,
                 heartbeat, notifying, rpcVars, status_tablet_, commitCb, callerVars,
                 crashed>>

\* The thread of an accepted Commit / Abort / SetupRestart goes on, without
\* the mutex, to DoCommit(Status::OK()) or DoAbort(Status::OK()).
RunDirect ==
  /\ ~crashed
  /\ NoRejection
  /\ NoStub
  /\ direct # "none"
  /\ direct' = "none"
  /\ IF direct = "DoCommit"
       THEN DoCommit(OK)
       ELSE DoAbort(OK) /\ UNCHANGED <<commitRpc, commitsSent, commitCb>>
  /\ UNCHANGED <<child_, state_, ready_, error_, commit_callback_, tablets_, waiters_,
                 restart_required, heartbeat, notifying, pendingRequest, resolveVars,
                 callerVars>>

\* CreateRestartedTransaction(): CreateSimilarTransaction, then SetupRestart
\* up to the point where the mutex is released.  The caller restarts a
\* running transaction only when its read point requires it (the DCHECK).
CreateRestartedTransaction ==
  /\ ~crashed
  /\ NoRejection
  /\ NoStub
  /\ state_ = Running => restart_required
  /\ IF state_ # Running
       THEN UNCHANGED <<state_, direct>>
       ELSE /\ state_' = Aborted
            /\ direct' = "RestartDoAbort"
  /\ UNCHANGED <<child_, ready_, error_, commit_callback_, tablets_, waiters_,
                 restart_required, heartbeat, notifying, pendingRequest, rpcVars,
                 resolveVars, commitCb, batch, childCb, acceptedTablets, crashed>>

\* PrepareChild(callback).
PrepareChild ==
  /\ ~crashed
  /\ NoRejection
  /\ NoStub
  /\ PrepareChildCalls < MaxPrepareChild
  /\ IF CheckRunning(state_, error_) # OK
       THEN /\ DoPrepareChild(CheckRunning(state_, error_))
            /\ UNCHANGED <<waiters_, pendingRequest, requested_status_tablet_, picks,
                           resolver>>
       ELSE IF restart_required
         THEN /\ DoPrepareChild(IllegalState)
              /\ UNCHANGED <<waiters_, pendingRequest, requested_status_tablet_, picks,
                             resolver>>
         ELSE IF ~ready_
           THEN /\ waiters_' = Append(waiters_, DoPrepareChildWaiter)
                /\ UnlockThenRequestStatusTablet
                /\ UNCHANGED childCb
           ELSE /\ DoPrepareChild(OK)
                /\ UNCHANGED <<waiters_, pendingRequest, requested_status_tablet_,
                               picks, resolver>>
  /\ UNCHANGED <<child_, state_, ready_, error_, commit_callback_, tablets_,
                 restart_required, heartbeat, notifying, direct, rpcVars, status_tablet_,
                 commitCb, batch, acceptedTablets, crashed>>

\* FinishChild().
FinishChild ==
  /\ ~crashed
  /\ NoRejection
  /\ NoStub
  /\ IF FinishChildReturn(state_, error_, child_, tablets_).status # OK
       THEN UNCHANGED state_
       ELSE state_' = Committed
  /\ UNCHANGED <<child_, ready_, error_, commit_callback_, tablets_, waiters_,
                 restart_required, heartbeat, notifying, pendingRequest, direct,
                 rpcVars, resolveVars, commitCb, callerVars, crashed>>

\* ApplyChildResult(result).  A result comes from a child, and a child is
\* built from the envelope a PrepareChild callback received.
ApplyChildResultCall(result, restart) ==
  /\ ~crashed
  /\ NoRejection
  /\ NoStub
  /\ \E i \in 1..Len(childCb) : childCb[i] = "data"
  /\ IF ApplyChildResultReturn(state_, error_, child_) # OK
       THEN UNCHANGED <<tablets_, restart_required>>
       ELSE /\ tablets_' = MergeFromPB(tablets_, result)
            /\ restart_required' = (restart_required \/ restart)
  /\ UNCHANGED <<child_, state_, ready_, error_, commit_callback_, waiters_,
                 heartbeat, notifying, pendingRequest, direct, rpcVars, resolveVars,
                 commitCb, callerVars, crashed>>

\* The application applies the result of some child; restart is whether the
\* child's read point requires restart.  A call that is rejected returns
\* before it reads its argument, so one argument stands for all.
ApplyChildResult ==
  \E result \in ChildResults, restart \in BOOLEAN :
    /\ ApplyChildResultReturn(state_, error_, child_) # OK =>
         (result = << >> /\ ~restart)
    /\ ApplyChildResultCall(result, restart)

\* A tablet server reports a conflicting write in its response to an op in
\* flight (a batch prepared and not yet flushed): the read point requires
\* restart (ConsistentReadPoint, outside this file).  No code path reads the
\* flag once the state has left Running, so only reports before that count.
ReadConflict ==
  /\ ~crashed
  /\ NoRejection
  /\ NoStub
  /\ state_ = Running
  /\ \E b \in Batches : batch[b].stage = "prepared"
  /\ ~restart_required
  /\ restart_required' = TRUE
  /\ UNCHANGED <<child_, state_, ready_, error_, commit_callback_, tablets_, waiters_,
                 heartbeat, notifying, pendingRequest, direct, rpcVars, resolveVars,
                 commitCb, callerVars, crashed>>


\* ------------------------------------------------------ reactor callbacks
\* The statuses an RPC to the status tablet can complete with.  An RPC that
\* was started through a null status_tablet_ reaches no tablet server: it
\* completes with an error of the RPC layer only.
RpcResults(answers) ==
  IF status_tablet_ = "set" THEN answers ELSE {OtherError}

\* StatusTabletPicked(tablet, transaction): the manager answers the pick.
StatusTabletPickedWith(results) ==
  \E status \in results :
    /\ ~crashed
    /\ NoRejection
    /\ NoStub
    /\ resolver = "picking"
    /\ IF status = OK
         THEN /\ resolver' = "lookup"
              /\ UNCHANGED <<error_, state_>>
         ELSE /\ resolver' = "failed"
              /\ SetError(status)
    /\ UNCHANGED <<child_, ready_, requested_status_tablet_, status_tablet_,
                   commit_callback_, tablets_, waiters_, restart_required, picks,
                   heartbeat, notifying, pendingRequest, direct, rpcVars, commitCb,
                   callerVars, crashed>>

StatusTabletPicked == StatusTabletPickedWith({OK, OtherError})

\* LookupTabletById leaves status_tablet_holder_ null when it fails.
LookupHolder(status) == IF status = OK THEN "set" ELSE "null"

\* LookupTabletDone(transaction, status): status is not looked at; the
\* holder is moved into status_tablet_ and dereferenced (undefined behaviour
\* when null: the process dies, or goes on), then the CREATED heartbeat.
LookupTabletDoneWith(results) ==
  \E status \in results :
    /\ ~crashed
    /\ NoRejection
    /\ NoStub
    /\ resolver = "lookup"
    /\ resolver' = "done"
    /\ status_tablet_' = LookupHolder(status)
    /\ IF LookupHolder(status) = "null"
         THEN \/ crashed' = TRUE /\ UNCHANGED heartbeat
              \/ crashed' = FALSE /\ SendHeartbeat(CREATED)
         ELSE crashed' = FALSE /\ SendHeartbeat(CREATED)
    /\ UNCHANGED <<child_, state_, ready_, requested_status_tablet_, error_,
                   commit_callback_, tablets_, waiters_, restart_required, picks,
                   notifying, pendingRequest, direct, rpcVars, commitCb, callerVars>>

LookupTabletDone == LookupTabletDoneWith({OK, OtherError})

\* HeartbeatDone that gives up on every error.
AnyHeartbeatErrorIsFatal(status) == TRUE

\* HeartbeatDone: `status.IsExpired()`, the error that is not retried.
HeartbeatErrorIsFatal(status) == status = Expired

\* HeartbeatDone(status, propagated_hybrid_time, transaction_status,
\* transaction), up to the loop over the waiters it moved out.
HeartbeatAnswer(status) ==
  /\ ~crashed
  /\ NoRejection
  /\ heartbeat.phase = "inflight"
  /\ IF status = OK
       THEN IF heartbeat.status = CREATED
         THEN /\ ready_' = TRUE
              /\ notifying' = waiters_
              /\ waiters_' = << >>
              /\ heartbeat' = IF waiters_ = << >>
                                THEN [phase |-> "scheduled", status |-> PENDING]
                                ELSE [phase |-> "notify", status |-> CREATED]
              /\ UNCHANGED <<error_, state_>>
         ELSE /\ heartbeat' = [phase |-> "scheduled", status |-> PENDING]
              /\ UNCHANGED <<ready_, notifying, waiters_, error_, state_>>
       ELSE IF HeartbeatErrorIsFatal(status)
         THEN /\ SetError(status)
              /\ heartbeat' = NoHeartbeat
              /\ UNCHANGED <<ready_, notifying, waiters_>>
         ELSE /\ SendHeartbeat(heartbeat.status)
              /\ UNCHANGED <<ready_, notifying, waiters_, error_, state_>>
  /\ UNCHANGED <<child_, commit_callback_, tablets_, restart_required,
                 pendingRequest, direct, rpcVars, resolveVars, commitCb, callerVars,
                 crashed>>

\* The status tablet (or the RPC layer) answers the heartbeat in flight.
HeartbeatDoneWith(answers) ==
  \E status \in RpcResults(answers) : HeartbeatAnswer(status) /\ NoStub

HeartbeatDone == HeartbeatDoneWith({OK, Expired, OtherError})

\* HeartbeatDone's loop when it takes the waiters from the back.
LastWaiter(ws) == ws[Len(ws)]

\* HeartbeatDone, `for (const auto& waiter : waiters)`: the waiter the loop
\* over the moved-out vector invokes next.
NextWaiter(ws) == Head(ws)

\* HeartbeatDone, `for (const auto& waiter : waiters) waiter(Status::OK())`:
\* one waiter is invoked; after the last one the next heartbeat is scheduled.
NotifyWaiter ==
  /\ ~crashed
  /\ NoRejection
  /\ NoStub
  /\ heartbeat.phase = "notify"
  /\ notifying # << >>
  /\ notifying' = Tail(notifying)
  /\ LET w == NextWaiter(notifying) IN
       /\ IF w.kind = "Prepare"
            THEN batch' = [batch EXCEPT ![w.batch].stage = "notified"]
            ELSE UNCHANGED batch
       /\ IF w.kind = "DoCommit"
            THEN DoCommit(OK)
            ELSE IF w.kind = "DoAbort"
              THEN DoAbort(OK) /\ UNCHANGED <<commitRpc, commitsSent, commitCb>>
              ELSE UNCHANGED <<rpcVars, commitCb, crashed>>
       /\ IF w.kind = "DoPrepareChild"
            THEN DoPrepareChild(OK)
            ELSE UNCHANGED childCb
  /\ heartbeat' = IF Tail(notifying) = << >>
                    THEN [phase |-> "scheduled", status |-> PENDING]
                    ELSE heartbeat
  /\ UNCHANGED <<child_, state_, ready_, error_, commit_callback_, tablets_, waiters_,
                 restart_required, pendingRequest, direct, resolveVars, acceptedTablets>>

\* The scheduler fires SendHeartbeat(PENDING, weak_transaction).
HeartbeatTimer ==
  /\ ~crashed
  /\ NoRejection
  /\ NoStub
  /\ heartbeat.phase = "scheduled"
  /\ SendHeartbeat(PENDING)
  /\ UNCHANGED <<child_, state_, ready_, error_, commit_callback_, tablets_, waiters_,
                 restart_required, notifying, pendingRequest, direct, rpcVars,
                 resolveVars, commitCb, callerVars, crashed>>

\* CommitDone(status, propagated_hybrid_time, transaction).
CommitDoneWith(answers) ==
  \E status \in RpcResults(answers) :
    /\ ~crashed
    /\ NoRejection
    /\ NoStub
    /\ commitRpc.phase = "inflight"
    /\ commitRpc' = NoCommitRpc
    /\ commitCb' = Append(commitCb, status)
    /\ UNCHANGED <<child_, state_, ready_, error_, commit_callback_, tablets_, waiters_,
                   restart_required, heartbeat, notifying, pendingRequest, direct,
                   commitsSent, abortRpc, abortsSent, resolveVars, callerVars, crashed>>

CommitDone == CommitDoneWith({OK, OtherError})

\* AbortDone(status, response, transaction).
AbortDone ==
  /\ ~crashed
  /\ NoRejection
  /\ NoStub
  /\ abortRpc = "inflight"
  /\ abortRpc' = "none"
  /\ UNCHANGED <<child_, state_, ready_, error_, commit_callback_, tablets_, waiters_,
                 restart_required, heartbeat, notifying, pendingRequest, direct,
                 commitRpc, commitsSent, abortsSent, resolveVars, commitCb, callerVars,
                 crashed>>

\* ---------------------------------------------------------- specification
Next ==
  \/ Prepare
  \/ RequestStatusTablet
  \/ Flushed
  \/ Commit
  \/ Abort
  \/ RunDirect
  \/ CreateRestartedTransaction
  \/ PrepareChild
  \/ FinishChild
  \/ ApplyChildResult
  \/ ReadConflict
  \/ StatusTabletPicked
  \/ LookupTabletDone
  \/ HeartbeatDone
  \/ NotifyWaiter
  \/ HeartbeatTimer
  \/ CommitDone
  \/ AbortDone

Spec == Init /\ [][Next]_vars

\* The same program when the status-tablet pick, the descriptor lookup and
\* every RPC to the status tablet succeed.
NextNoFailure ==
  \/ Prepare
  \/ RequestStatusTablet
  \/ Flushed
  \/ Commit
  \/ Abort
  \/ RunDirect
  \/ CreateRestartedTransaction
  \/ PrepareChild
  \/ FinishChild
  \/ ApplyChildResult
  \/ ReadConflict
  \/ StatusTabletPickedWith({OK})
  \/ LookupTabletDoneWith({OK})
  \/ HeartbeatDoneWith({OK})
  \/ NotifyWaiter
  \/ HeartbeatTimer
  \/ CommitDoneWith({OK})
  \/ AbortDone

SpecNoFailure == Init /\ [][NextNoFailure]_vars

\* The status tablet is a stub that lets up to MaxStubFailures heartbeats
\* fail with a transient (not Expired) error and answers Ok otherwise.
HeartbeatStubAnswer ==
  \/ /\ stubFailures < MaxStubFailures
     /\ HeartbeatAnswer(OtherError)
     /\ stubFailures' = stubFailures + 1
  \/ HeartbeatAnswer(OK) /\ NoStub

\* Flushed(ops, Status::OK()) for some prepared batch.
FlushedOk ==
  \E b \in Batches : \E succeeded \in SUBSET BatchOps(b) : FlushedCall(b, OK, succeeded)

\* A non-child transaction.
InitParent == Init /\ ~child_

\* A non-child transaction that writes and commits against the failing
\* heartbeat stub: nothing but the stub fails, nobody aborts or restarts.
NextHeartbeatStub ==
  \/ Prepare
  \/ RequestStatusTablet
  \/ FlushedOk
  \/ Commit
  \/ RunDirect
  \/ StatusTabletPickedWith({OK})
  \/ LookupTabletDoneWith({OK})
  \/ HeartbeatStubAnswer
  \/ NotifyWaiter
  \/ HeartbeatTimer
  \/ CommitDoneWith({OK})
  \/ AbortDone

SpecHeartbeatStub == InitParent /\ [][NextHeartbeatStub]_vars

\* Nothing is in flight and no thread is inside the coordinator: only a new
\* call of the application can change the state.
Quiescent ==
  /\ pendingRequest = 0
  /\ direct = "none"
  /\ resolver \notin {"picking", "lookup"}
  /\ heartbeat.phase = "none"
  /\ notifying = << >>
  /\ commitRpc.phase = "none"
  /\ abortRpc = "none"


\* ----------------------------------------------------------------- claims
\* Some op of batch b targets a tablet that has no entry in t or whose
\* has_parameters is false.
NeedsParameters(t, b) ==
  \E id \in BatchTablets(b) : id \notin Keys(t) \/ ~t[id]

\* C1: the state only moves forward: once it has left Running it does not
\* change any more (neither back to Running nor between Committed and
\* Aborted), whatever runs next, SetError included.
C1_MonotoneState == [][state_ # Running => state_' = state_]_vars

\* C2: when the pick, the lookup and every RPC succeed, an accepted Commit
\* whose continuation was deferred does get its callback: the coordinator
\* cannot come to rest (nothing in flight, no thread inside, no error
\* latched) with the commit callback stored and never invoked.
C2_DeferredCommitCompletes ==
  (commit_callback_ = "set" /\ error_ = OK /\ ~crashed /\ Quiescent)
    => commitCb # << >>

\* C3: no waiter stays in the waiters list forever: once resolution was
\* requested and the coordinator has come to rest, every waiter has been
\* moved out and invoked, with Ok or with the resolution error.
C3_NoWaiterLeftBehind ==
  (requested_status_tablet_ /\ ~crashed /\ Quiescent) => waiters_ = << >>

\* C4: the manager's status-tablet picker is called at most once per
\* coordinator, however many callers race, and never by a child.
C4_SinglePick == picks <= 1 /\ (child_ => picks = 0)

\* C4 witness: the pick was made and another caller that found the flag
\* clear under the mutex is still about to call RequestStatusTablet.
C4_Witness == picks = 1 /\ pendingRequest > 0 /\ requested_status_tablet_

\* The part of C5 the original and the amended statement share: a Prepare
\* before ready returns false, appends its waiter, triggers resolution and
\* leaves tablets_ and the metadata slot alone; the acknowledged CREATED
\* heartbeat moves all waiters out and each Prepare waiter is invoked (with
\* Ok); the re-run then finds the transaction ready and returns true.
C5_RejectedThenNotified(b) ==
  /\ (~ready_ /\ batch'[b] # batch[b] /\ PrepareCall(b)) =>
       /\ batch'[b].stage = "postponed"
       /\ batch'[b].metadata = batch[b].metadata
       /\ tablets_' = tablets_
       /\ waiters_' = Append(waiters_, PrepareWaiter(b))
       /\ requested_status_tablet_' \/ pendingRequest' = pendingRequest + 1
  /\ (pendingRequest > 0 /\ RequestStatusTablet) => requested_status_tablet_'
  /\ (~ready_ /\ ready_' /\ HeartbeatDone) =>
       /\ heartbeat.status = CREATED
       /\ notifying' = waiters_
       /\ waiters_' = << >>
  /\ (notifying # << >> /\ Head(notifying) = PrepareWaiter(b) /\ NotifyWaiter) =>
       ready_ /\ batch'[b].stage = "notified"
  /\ (batch[b].stage = "notified" /\ batch'[b] # batch[b] /\ PrepareCall(b)) =>
       ready_ /\ batch'[b].stage = "prepared"

\* C5 as stated: ... and the re-run of Prepare always receives the full
\* transaction metadata.
C5_RerunAlwaysFull ==
  [][\A b \in Batches :
       /\ C5_RejectedThenNotified(b)
       /\ (batch[b].stage = "notified" /\ batch'[b] # batch[b] /\ PrepareCall(b)) =>
            batch'[b].metadata = "full"]_vars

\* C5 amended: ... and the re-run of Prepare receives the full transaction
\* metadata exactly when one of its ops targets a tablet that has no entry
\* or whose has_parameters is false at that moment, else only the id.
C5_RerunFullWhenNeeded ==
  [][\A b \in Batches :
       /\ C5_RejectedThenNotified(b)
       /\ (batch[b].stage = "notified" /\ batch'[b] # batch[b] /\ PrepareCall(b)) =>
            batch'[b].metadata =
              (IF NeedsParameters(tablets_, b) THEN "full" ELSE "transaction_id")]_vars

\* C5 witness: the waiter of a batch whose Prepare was rejected has been
\* invoked after the CREATED heartbeat, and the re-run is due.
C5_Witness == \E b \in Batches : batch[b].stage = "notified" /\ ready_

\* C6: Prepare on a ready transaction returns true, leaves an entry for
\* every tablet of ops, and writes the full metadata exactly when some op
\* targets a tablet that had no entry or had has_parameters false before the
\* call, else only transaction_id.  ("The step has this effect or is not
\* this Prepare" is the implication from the call to its effect.)
C6_PrepareReady ==
  [][\A b \in Batches :
       (ready_ /\ batch'[b] # batch[b]) =>
         \/ /\ batch'[b].stage = "prepared"
            /\ BatchTablets(b) \subseteq Keys(tablets_')
            /\ batch'[b].metadata =
                 (IF NeedsParameters(tablets_, b) THEN "full" ELSE "transaction_id")
         \/ ~PrepareCall(b)]_vars

\* C6 witness: a batch on two tablets, one informed and one not, was
\* prepared and got the full metadata.
C6_Witness ==
  /\ batch[1].stage = "prepared" /\ batch[1].metadata = "full"
  /\ Keys(tablets_) = {"A", "B"}
  /\ tablets_["A"] # tablets_["B"]

\* C7: Flushed(ops, Ok) on a prepared batch leaves an entry for every tablet
\* of ops, sets has_parameters for every tablet with a succeeded op and keeps
\* it for every other tablet; a Prepare that then targets only tablets with
\* has_parameters set receives only transaction_id.  ("The step has this
\* effect or is not that call" is the implication from the call to its
\* effect.)
C7_FlushedOk ==
  [][\A b \in Batches :
       /\ (batch[b].stage = "prepared" /\ batch'[b].stage = "idle") =>
            \A succeeded \in SUBSET BatchOps(b) :
              \/ /\ BatchTablets(b) \subseteq Keys(tablets_')
                 /\ Keys(tablets_') = Keys(tablets_)
                 /\ \A id \in Keys(tablets_) :
                      tablets_'[id] =
                        (IF id \in {TabletOf(op) : op \in succeeded}
                           THEN TRUE ELSE tablets_[id])
              \/ ~FlushedCall(b, OK, succeeded)
       /\ (ready_ /\ ~NeedsParameters(tablets_, b) /\ batch'[b] # batch[b]) =>
            batch'[b].metadata = "transaction_id" \/ ~PrepareCall(b)]_vars

\* C7 witness: on a child (whose tablets_ only Prepare and Flushed change) a
\* batch on A and B was flushed Ok with only the op on B succeeded.
C7_Witness ==
  /\ child_ /\ batch[1].stage = "idle"
  /\ Keys(tablets_) = {"A", "B"}
  /\ ~tablets_["A"] /\ tablets_["B"]

\* C8: Commit on a transaction that is not Running, or is a child, or whose
\* read point requires restart, invokes its callback with an error, stores
\* no commit callback, sends no RPC and leaves the state unchanged.
C8_CommitRejected ==
  [][((state_ # Running \/ child_ \/ restart_required) /\ Commit) =>
       /\ rejectCb' \in {IllegalState, TryAgain, Expired, OtherError}
       /\ UNCHANGED <<state_, commit_callback_, commitCb, waiters_, direct,
                      pendingRequest, rpcVars, heartbeat, resolveVars>>]_vars

\* C8 witness: a Commit on a running transaction was rejected (child or
\* restart required) and nothing was stored or sent.
C8_Witness ==
  /\ rejectCb = IllegalState /\ state_ = Running
  /\ commit_callback_ = "empty" /\ commitsSent = 0 /\ abortsSent = 0

\* C9: the COMMITTED update lists exactly the tablets that were keys of
\* tablets_ when Commit was accepted, whatever other threads do between the
\* acceptance and the construction of the request.
C9_CommitPayload ==
  commitRpc.phase = "inflight" => commitRpc.tablets = acceptedTablets

\* C10: a Commit that was accepted on a ready transaction while tablets_
\* was empty runs DoCommit with this outcome: the commit callback is invoked
\* with Ok, one Abort RPC is sent and no COMMITTED update.
C10_EmptyCommit ==
  [][(direct = "DoCommit" /\ acceptedTablets = {} /\ RunDirect) =>
       /\ commitCb' = Append(commitCb, OK)
       /\ abortsSent' = abortsSent + 1
       /\ commitsSent' = commitsSent]_vars

\* C11: Flushed with TryAgain on a Running transaction latches TryAgain as
\* the error and moves the state to Aborted without sending any RPC; Flushed
\* with any other non-Ok status changes neither state, error nor tablets_.
C11_FlushedError ==
  [][\A b \in Batches :
       (batch[b].stage = "prepared" /\ batch'[b].stage = "idle") =>
         /\ (state_ = Running /\ FlushedCall(b, TryAgain, {})) =>
              /\ error_' = TryAgain /\ state_' = Aborted
              /\ UNCHANGED <<tablets_, rpcVars, heartbeat, direct>>
         /\ \A status \in {Expired, OtherError} :
              FlushedCall(b, status, {}) =>
                UNCHANGED <<state_, error_, tablets_, rpcVars, heartbeat>>]_vars

\* C11 witness: a Running transaction was aborted by Flushed(TryAgain) and
\* nothing was sent for it.
C11_Witness ==
  /\ error_ = TryAgain /\ state_ = Aborted /\ commit_callback_ = "empty"
  /\ abortsSent = 0 /\ commitsSent = 0 /\ Keys(tablets_) # {}

\* C12: a latched error never changes; every Commit called after an error
\* was latched hands exactly that error to its callback, stores nothing and
\* sends nothing; and when the error was latched while Running (no Commit
\* had been accepted) no COMMITTED update is ever sent.
C12_CommitSeesLatchedError ==
  [][/\ error_ # OK => error_' = error_
     /\ (error_ # OK /\ Commit) =>
          /\ rejectCb' = error_
          /\ UNCHANGED <<state_, commit_callback_, waiters_, direct, rpcVars,
                         commitCb>>
     /\ (error_' # OK /\ commit_callback_' = "empty") => commitsSent' = 0]_vars

\* C12 witness: Commit was just rejected with the Expired error a heartbeat
\* had latched.
C12_Witness ==
  /\ rejectCb = Expired /\ error_ = Expired /\ state_ = Aborted
  /\ commit_callback_ = "empty" /\ commitsSent = 0

\* C13: when a heartbeat returned Expired after a Commit was accepted and
\* before its callback was invoked, the commit callback is invoked with
\* Expired.  (An Expired error latched before the Commit makes the Commit a
\* rejected one, so error_ = Expired with a stored callback means the
\* heartbeat answer came after the acceptance.)
C13_PendingCommitGetsExpired ==
  [][(commit_callback_ = "set" /\ error_ = Expired /\ commitCb' # commitCb) =>
       commitCb' = Append(commitCb, Expired)]_vars

\* C14: Abort on a Running non-child transaction sends one Abort RPC, at
\* once when ready and else through its continuation: a non-child
\* transaction that Abort (or a restart) moved to Aborted has, once nothing
\* is in flight any more and no thread is inside the coordinator, sent
\* exactly one Abort RPC.
C14_AbortSendsOneRpc ==
  (~child_ /\ state_ = Aborted /\ error_ = OK /\ commit_callback_ = "empty"
     /\ ~crashed /\ Quiescent)
    => abortsSent = 1

\* C15: against a stub that lets heartbeats (CREATED or PENDING) fail a
\* finite number of times with errors other than Expired, no error is
\* latched; the transaction is Running until its Commit is accepted; a
\* failed heartbeat is sent again with the same status (CREATED until ready,
\* PENDING after), so a Running transaction never loses its heartbeat; no
\* Commit is rejected before the accepted one; and a Commit made once the
\* CREATED heartbeat has succeeded delivers the status tablet's Ok (only
\* Ok is ever delivered).
C15_HeartbeatResilience ==
  /\ error_ = OK
  /\ state_ = (IF commit_callback_ = "set" THEN Committed ELSE Running)
  /\ heartbeat.phase = "inflight" =>
       heartbeat.status = (IF ready_ THEN PENDING ELSE CREATED)
  /\ (stubFailures > 0 /\ state_ = Running) => heartbeat.phase # "none"
  /\ commit_callback_ = "empty" => rejectCb = "none"
  /\ commitCb \in {<< >>, <<OK>>}
  /\ (commit_callback_ = "set" /\ ready_ /\ Quiescent) => commitCb = <<OK>>

\* C15 witness: the stub let MaxStubFailures heartbeats fail, and the
\* COMMITTED update of the Commit made afterwards was acknowledged with Ok.
C15_Witness ==
  /\ stubFailures = MaxStubFailures /\ ready_
  /\ commitsSent = 1 /\ commitCb = <<OK>> /\ acceptedTablets # {}

\* C16: CreateRestartedTransaction on a Running transaction whose read
\* point requires restart moves the original to Aborted and then sends one
\* Abort RPC for it to the status tablet (which therefore is known); on a
\* transaction that is not Running it leaves the original's state and read
\* point alone and sends nothing.
C16_Restart ==
  [][/\ (state_ = Running /\ restart_required /\ CreateRestartedTransaction) =>
          state_' = Aborted /\ direct' = "RestartDoAbort"
     /\ (state_ # Running /\ CreateRestartedTransaction) =>
          UNCHANGED <<state_, restart_required, direct, rpcVars>>
     /\ (direct = "RestartDoAbort" /\ RunDirect) =>
          /\ status_tablet_ = "set" /\ ~crashed'
          /\ abortsSent' = abortsSent + 1]_vars

\* C17: ApplyChildResult on a Running parent leaves tablets_ with the old
\* keys plus the result's keys, each has_parameters the OR of the old value
\* (false when missing) and the result's value (entries the result does not
\* list keep theirs); applying the same result again changes nothing; no
\* key is ever removed and DoCommit lists the keys of tablets_, so a
\* following Commit lists the child's tablets.
C17_ChildMerge ==
  [][/\ \A result \in ChildResults, restart \in BOOLEAN :
          (state_ = Running /\ ~child_ /\ ApplyChildResultCall(result, restart)) =>
            /\ Keys(tablets_') = Keys(tablets_) \cup Keys(result)
            /\ \A id \in Keys(tablets_') :
                 tablets_'[id] =
                   ((IF id \in Keys(tablets_) THEN tablets_[id] ELSE FALSE)
                      \/ (IF id \in Keys(result) THEN result[id] ELSE FALSE))
            /\ MergeFromPB(tablets_', result) = tablets_'
     /\ Keys(tablets_) \subseteq Keys(tablets_')
     /\ (commitsSent' # commitsSent) =>
          commitRpc'.tablets = Keys(tablets_) /\ commitRpc'.tablets # {}]_vars

\* C17 witness: the parent's only participant is tablet B with
\* has_parameters set, which only a child result can have produced, and
\* the COMMITTED update in flight lists B.
C17_Witness ==
  /\ ~child_ /\ Keys(tablets_) = {"B"} /\ tablets_["B"]
  /\ commitRpc = [phase |-> "inflight", tablets |-> {"B"}]

\* The error statuses an operation can return.
ErrorStatuses == {IllegalState, TryAgain, Expired, OtherError}

\* C18: FinishChild on a Running child moves it to Committed, returns Ok
\* with one entry per key of tablets_ carrying its has_parameters, and sends
\* no RPC; FinishChild on a non-child or non-Running transaction, and
\* ApplyChildResult on a child or non-Running transaction, return an error
\* and leave state and tablets_ unchanged.  (Each "the step has this effect
\* or is not a FinishChild / ApplyChildResult step" is the implication from
\* the operation to its effect.)
C18_ChildMisuse ==
  [][/\ IF state_ = Running /\ child_
          THEN /\ FinishChildReturn(state_, error_, child_, tablets_)
                    = [status |-> OK, tablets |-> tablets_]
               /\ (state_' = Committed /\ UNCHANGED <<tablets_, error_, rpcVars, heartbeat>>)
                    \/ ~FinishChild
          ELSE /\ FinishChildReturn(state_, error_, child_, tablets_).status
                    \in ErrorStatuses
               /\ UNCHANGED <<state_, tablets_, error_, rpcVars>> \/ ~FinishChild
     /\ (state_ # Running \/ child_) =>
          /\ ApplyChildResultReturn(state_, error_, child_) \in ErrorStatuses
          /\ UNCHANGED <<state_, tablets_, error_, restart_required, rpcVars>>
               \/ ~ApplyChildResult]_vars

\* C18 witness: a child that prepared a batch on A and B, had the op on B
\* succeed, and was finished.
C18_Witness ==
  /\ child_ /\ state_ = Committed /\ error_ = OK
  /\ Keys(tablets_) = {"A", "B"} /\ tablets_["B"] /\ ~tablets_["A"]
  /\ commitsSent = 0 /\ abortsSent = 0

\* C19: PrepareChild on a transaction that is not Running or requires
\* restart invokes its callback with an error and enqueues nothing; on a
\* Running ready transaction it invokes the callback once with the envelope;
\* on a Running transaction that is not ready it invokes nothing, appends
\* its continuation and triggers resolution; no continuation is invoked
\* before the transaction is ready; when ready flips all continuations are
\* moved out, each is invoked once with the envelope, and none stays queued.
C19_PrepareChild ==
  [][/\ ((state_ # Running \/ restart_required) /\ PrepareChild) =>
          /\ childCb' = Append(childCb, "error")
          /\ UNCHANGED <<waiters_, pendingRequest, resolveVars, state_>>
     /\ (state_ = Running /\ ~restart_required /\ ready_ /\ PrepareChild) =>
          /\ childCb' = Append(childCb, "data")
          /\ UNCHANGED <<waiters_, pendingRequest, resolveVars>>
     /\ (state_ = Running /\ ~restart_required /\ ~ready_ /\ PrepareChild) =>
          /\ childCb' = childCb
          /\ waiters_' = Append(waiters_, DoPrepareChildWaiter)
          /\ requested_status_tablet_' \/ pendingRequest' = pendingRequest + 1
     /\ ~ready_ => notifying = << >>
     /\ ready_ => waiters_ = << >>
     /\ (~ready_ /\ ready_') => notifying' = waiters_
     /\ (notifying # << >> /\ Head(notifying) = DoPrepareChildWaiter /\ NotifyWaiter) =>
          /\ childCb' = Append(childCb, "data")
          /\ notifying' = Tail(notifying)
     /\ childCb' # childCb =>
          \E r \in {"data", "error"} : childCb' = Append(childCb, r)]_vars

\* C19 witness: a Running parent that nobody but PrepareChild made resolve
\* its status tablet (no batch was prepared, no Commit or Abort) is ready and
\* the queued callback has received the envelope.
C19_Witness ==
  /\ ~child_ /\ ready_ /\ state_ = Running /\ picks = 1
  /\ Keys(tablets_) = {} /\ \A b \in Batches : batch[b] = IdleBatch
  /\ childCb = <<"data">> /\ notifying = << >>

\* Status-tablet resolution has failed: the pick answered an error, or the
\* lookup did (it completed and left no descriptor).
ResolutionFailed ==
  resolver = "failed" \/ (resolver = "done" /\ status_tablet_ = "null")

\* C20: when status-tablet resolution failed, at the pick or at the lookup,
\* the error is recorded, the state is Aborted, no CREATED heartbeat is or
\* was sent and the transaction is not ready (and the process is alive).
C20_ResolutionFailure ==
  ResolutionFailed =>
    /\ error_ # OK /\ state_ = Aborted
    /\ heartbeat.phase = "none" /\ ~ready_ /\ ~crashed

\* C21: waiters are invoked in the order in which they were appended: the
\* waiters list only grows at its end (also while a CREATED heartbeat is in
\* flight) or is moved out as a whole into the vector HeartbeatDone walks;
\* that vector only loses its first element, and what a step of the walk
\* does (re-run of a batch allowed, DoCommit, DoAbort, PrepareChild
\* callback) is what the first element stands for.  Nothing is appended
\* once the list was moved out.
C21_InsertionOrder ==
  [][/\ waiters_' # waiters_ =>
          \/ /\ Len(waiters_') = Len(waiters_) + 1
             /\ SubSeq(waiters_', 1, Len(waiters_)) = waiters_
             /\ ~ready_ /\ notifying = << >>
          \/ waiters_' = << >> /\ notifying = << >> /\ notifying' = waiters_ /\ ready_'
     /\ notifying' # notifying =>
          \/ notifying = << >> /\ notifying' = waiters_ /\ waiters_' = << >>
          \/ /\ notifying # << >> /\ notifying' = Tail(notifying)
             /\ LET w == Head(notifying) IN
                  /\ \A b \in Batches :
                       batch'[b] # batch[b] =>
                         w = PrepareWaiter(b) /\ batch'[b].stage = "notified"
                  /\ w.kind = "Prepare" => batch'[w.batch].stage = "notified"
                  /\ childCb' # childCb <=> w = DoPrepareChildWaiter
                  /\ (commitCb' # commitCb \/ commitsSent' # commitsSent) =>
                       w = DoCommitWaiter
                  /\ w = DoCommitWaiter =>
                       commitCb' # commitCb \/ commitsSent' # commitsSent \/ crashed'
                  /\ abortsSent' # abortsSent => w \in {DoAbortWaiter, DoCommitWaiter}
                  /\ w = DoAbortWaiter => abortsSent' # abortsSent \/ crashed'
     /\ ready_ => waiters_' = waiters_]_vars

\* C21 witness: a Prepare and then a Commit were queued while the CREATED
\* heartbeat was in flight; the walk has invoked the Prepare waiter and the
\* DoCommit continuation is next.
C21_Witness ==
  /\ batch[1].stage = "notified" /\ notifying = <<DoCommitWaiter>>
  /\ commitCb = << >> /\ commitsSent = 0 /\ heartbeat.phase = "notify"

\* C22: Abort cancels the outstanding RPC handles: in the step in which
\* Abort moves the state to Aborted, a heartbeat or COMMITTED update that
\* was in flight stops being outstanding (so its completion is never
\* delivered afterwards).
C22_AbortCancelsRpcs ==
  [][(state_ = Running /\ state_' = Aborted /\ Abort) =>
       heartbeat'.phase # "inflight" /\ commitRpc'.phase # "inflight"]_vars

\* C23: Flushed on a transaction in a terminal state (Committed or Aborted)
\* is absorbed: whatever its status, TryAgain included, it changes neither
\* the state nor the latched error.
C23_FlushedAbsorbed ==
  [][(state_ \in {Committed, Aborted} /\ Flushed) => UNCHANGED <<state_, error_>>]_vars

\* How far the heartbeat cycle is from its end: a heartbeat in flight is
\* followed by the walk over the waiters (CREATED only), then by the
\* scheduled SendHeartbeat, which sends or gives up.
HeartbeatRank(h) ==
  CASE h.phase = "inflight" -> 3
    [] h.phase = "notify" -> 2
    [] h.phase = "scheduled" -> 1
    [] OTHER -> 0

\* C24: heartbeating stops once the state is not Running: from then on no
\* heartbeat RPC (CREATED or PENDING) is sent, a stopped heartbeat is not
\* started again, and the one heartbeat that was in flight or scheduled
\* only runs to its end (its completion schedules the next send, which
\* finds the state and sends nothing); and a PENDING heartbeat is only
\* sent once a CREATED heartbeat succeeded (ready is set).
C24_HeartbeatStops ==
  [][/\ state_ # Running =>
          /\ heartbeat'.phase = "inflight" => heartbeat' = heartbeat
          /\ HeartbeatRank(heartbeat') <= HeartbeatRank(heartbeat)
          /\ (heartbeat.phase = "scheduled" /\ heartbeat' # heartbeat) =>
               heartbeat' = NoHeartbeat
     /\ (heartbeat'.status = PENDING /\ heartbeat'.phase # "none") =>
          /\ ready_' /\ status_tablet_' = "set"
          /\ heartbeat.phase # "none"
          /\ heartbeat.status = CREATED => heartbeat.phase \in {"inflight", "notify"}]_vars

\* C24 witness: a parent whose heartbeat ran (it is ready) was committed
\* with no error latched, and its heartbeat has stopped.
C24_Witness ==
  /\ ~child_ /\ ready_ /\ state_ = Committed /\ error_ = OK
  /\ heartbeat = NoHeartbeat /\ commitCb = <<OK>>

\* C25: ready is true at construction exactly for a child; it never goes
\* back to false; it goes from false to true only in the step that
\* processes the Ok answer of a CREATED heartbeat; and whenever a CREATED
\* heartbeat is in flight (first send or a retry after a transient
\* failure) ready is false, so the assertion of HeartbeatDone holds.
C25_ReadyOnce ==
  /\ ready_ = child_
  /\ [][/\ ready_ => ready_'
        /\ (~ready_ /\ ready_') =>
             /\ heartbeat = [phase |-> "inflight", status |-> CREATED]
             /\ HeartbeatAnswer(OK)
        /\ (heartbeat.phase = "inflight" /\ heartbeat.status = CREATED) => ~ready_
        /\ child_ => heartbeat' = NoHeartbeat]_vars

\* C25 witness: the CREATED heartbeat of a parent has just succeeded: ready
\* is set and the waiters that were queued are being invoked.
C25_Witness ==
  /\ ~child_ /\ ready_ /\ heartbeat = [phase |-> "notify", status |-> CREATED]
  /\ notifying # << >> /\ waiters_ = << >>

\* C26: the first error wins: a latched (non-Ok) error is never changed by
\* a later SetError (Flushed with TryAgain, an Expired heartbeat, a failed
\* pick), and whenever an error is latched the state is Aborted, from the
\* step that latches it on.
C26_FirstErrorWins ==
  [][/\ error_ # OK => error_' = error_ /\ state_ = Aborted
     /\ error_' # OK => state_' = Aborted]_vars

\* C26 witness: Flushed latched TryAgain while a heartbeat was in flight;
\* its answer (Expired, say) is the later SetError call.
C26_Witness ==
  /\ error_ = TryAgain /\ state_ = Aborted
  /\ heartbeat.phase = "inflight" /\ status_tablet_ = "set"

\* C27: the callback of a Commit call is invoked at most once: a rejected
\* Commit invokes its callback in the call itself and stores nothing, so
\* nothing can invoke it again; the callback of the accepted Commit (there
\* is at most one) is invoked at most once, by DoCommit (empty table or
\* error) or by the COMMITTED acknowledgement, never by both.
C27_CallbackAtMostOnce ==
  [][/\ Len(commitCb') <= 1
     /\ commitCb' # commitCb =>
          /\ commit_callback_ = "set" /\ commitCb = << >> /\ rejectCb' = "none"
          /\ commitRpc'.phase = "none"
     /\ rejectCb' # "none" =>
          UNCHANGED <<commitCb, commit_callback_, waiters_, direct, commitRpc>>
     /\ commit_callback_ = "set" => commit_callback_' = "set" /\ state_' # Running]_vars

\* C27 witness: the accepted Commit was completed by the COMMITTED
\* acknowledgement (one invocation), and a further Commit call has just
\* been rejected through its own callback.
C27_Witness ==
  /\ commitCb = <<OK>> /\ commitsSent = 1 /\ commitRpc = NoCommitRpc
  /\ rejectCb = IllegalState /\ direct = "none" /\ waiters_ = << >>

\* C28: no heartbeat, COMMITTED update or Abort RPC is built before the
\* status tablet is known: whenever DoCommit or DoAbort runs with Ok (from
\* the thread of Commit, Abort or SetupRestart, or as a waiter) and
\* whenever a heartbeat is sent, status_tablet_ is set, so no step
\* dereferences a null status_tablet_.
C28_StatusTabletKnown ==
  [][/\ (direct # "none" /\ RunDirect) => status_tablet_ = "set"
     /\ (notifying # << >> /\ NotifyWaiter) => status_tablet_ = "set"
     /\ (heartbeat'.phase = "inflight" \/ abortRpc' = "inflight"
           \/ commitRpc'.phase = "inflight") => status_tablet_' = "set"
     /\ ~crashed']_vars

\* DoCommit only runs for a parent that is ready, which has its status
\* tablet: the one dereference DoCommit makes itself is never on null.
DoCommitHasStatusTablet ==
  /\ direct = "DoCommit" => status_tablet_ = "set"
  /\ notifying # << >> => status_tablet_ = "set"

\* C29: over any sequence of Commit, Abort, CreateRestartedTransaction,
\* Flushed and completions, a coordinator sends at most one COMMITTED
\* update and at most one Abort RPC to the status tablet, and never both;
\* a child sends neither unless it is restarted.
C29_OneFinalRpc ==
  /\ commitsSent <= 1 /\ abortsSent <= 1
  /\ commitsSent + abortsSent <= 1
  /\ commitsSent = 1 => commit_callback_ = "set" /\ ~child_
  /\ (abortsSent = 1 /\ commit_callback_ = "set") => acceptedTablets = {}

\* C29 witness: the COMMITTED update of an accepted Commit was sent and
\* acknowledged; afterwards Flushed(TryAgain) marked the transaction
\* Aborted, and still no Abort RPC was sent.
C29_Witness ==
  /\ commitsSent = 1 /\ abortsSent = 0 /\ commitCb = <<OK>>
  /\ state_ = Aborted /\ error_ = TryAgain /\ direct = "none" /\ notifying = << >>

\* C30: no application callback is invoked while the coordinator mutex is
\* held: neither the callback of a rejected Commit (not Running, child,
\* restart required), nor the PrepareChild callback in the call itself
\* (rejections and the ready path), nor the PrepareChild callback invoked
\* as a waiter.
C30_NoCallbackUnderMutex ==
  [][/\ rejectCb' # "none" =>
          ~CommitCallbackHoldsMutex(state_, error_, child_, restart_required)
     /\ (childCb' # childCb /\ PrepareChild) =>
          ~PrepareChildCallbackHoldsMutex(state_, error_, restart_required, ready_)
     /\ (childCb' # childCb /\ NotifyWaiter) =>
          ~DoPrepareChildHoldsMutex(OK)]_vars

====
